---------------------------- MODULE Spec2Model ----------------------------
(***************************************************************************)
(* A model of atMap (src/container/atMap.c++): a red-black tree that maps  *)
(* atItem keys to atItem values.  The tree is kept as the code keeps it: a *)
(* heap of atMapNode structures linked by leftChild, rightChild and parent *)
(* pointers, a treeRoot pointer and a treeSize counter.  Every public      *)
(* method is one action; the private helpers are operators on a "machine"  *)
(* record m = [heap, root, destroyed, notes, steps, fault] that is         *)
(* threaded through them in the order of the code's statements.            *)
(***************************************************************************)
EXTENDS Integers, Sequences, FiniteSets

\* ------------------------------------------------------------------ bounds

\* Keys are drawn from 1..MaxKey.
MaxKey == 7

\* ------------------------------------------------------------------- items

\* An atItem object is <<kind, order value, identity>>.  Two key objects
\* with the same order value and different identities are equal items held
\* in different instances.
NullItem == <<"null", 0, 0>>

Keys == 1..MaxKey

\* The key object the caller allocates for the map to own.
OwnKey(k) == <<"key", k, 1>>

\* A second instance of the same key, which the caller keeps for itself.
TmpKey(k) == <<"key", k, 2>>

\* The keys of the model and of the round trip of spec section 8.
AllKeys == Keys \cup {1, 3, 4, 5, 7, 8, 9}

KeyObjects == {OwnKey(k) : k \in Keys} \cup {TmpKey(k) : k \in Keys}

\* The caller has two value objects for every key.
Value(k, i) == <<"val", k, i>>

ValueObjects == {Value(k, i) : k \in Keys, i \in {1, 2}}

\* The keys whose stored value the caller replaces by changeValue; the caller
\* calls changeValue for every key the map does not hold.
Replaceable == {3}

\* A key object of an atItem class whose compare and equals disagree, as
\* with strings ordered without regard to case and tested for equality with
\* regard to it: <<"fold", 10 * order value + spelling, identity>>.  compare
\* goes by the order value, equals by order value and spelling.
FoldKey(v, id) == <<"fold", v, id>>

\* What compare goes by.
OrderOf(a) == IF a[1] = "fold" THEN a[2] \div 10 ELSE a[2]

\* atItem::compare: negative, zero or positive.
compare(a, b) == OrderOf(a) - OrderOf(b)

\* atItem::equals.
equals(a, b) == a[2] = b[2]

\* ------------------------------------------------------------------- nodes

NULL == 0

Nodes == 1..MaxKey

AT_MAP_BLACK == "BLACK"
AT_MAP_RED == "RED"

AT_MAP_LEFTCHILD == "LEFTCHILD"
AT_MAP_RIGHTCHILD == "RIGHTCHILD"
AT_MAP_ROOTNODE == "ROOTNODE"
\* getChildType's -1.
NotAChild == "NOTACHILD"

\* The content of a node that is not allocated (and of address NULL).
FreeNode ==
    [nodeKey |-> NullItem, nodeValue |-> NullItem, leftChild |-> NULL,
     rightChild |-> NULL, parent |-> NULL, color |-> AT_MAP_BLACK]

EmptyHeap == [n \in {NULL} \cup Nodes |-> FreeNode]

\* An atList * argument: whether a list is given (not NULL), how many items
\* it had when the call began, and its items.
NoList == [given |-> FALSE, had |-> 0, items |-> <<>>]

EmptyList == [given |-> TRUE, had |-> 0, items |-> <<>>]

\* An item of the caller's that a list holds before the call.
Stray == <<"val", 0, 0>>

UsedList == [given |-> TRUE, had |-> 1, items |-> <<Stray>>]

\* The lists a caller hands to getSortedList.
Lists == {NoList, EmptyList, UsedList}

\* atList::addEntry: the item goes to the end of the list.
atListAddEntry(list, item) == [list EXCEPT !.items = Append(@, item)]

\* atList::getNumEntries.
atListGetNumEntries(list) == Len(list.items)

VARIABLES
    heap,        \* the atMapNode structures, by address
    treeRoot,    \* atMap::treeRoot
    treeSize,    \* atMap::treeSize
    call,        \* the last public call: [op, key, value]
    retItem,     \* the atItem * it returned (NullItem for NULL)
    retBool,     \* the bool it returned; for a call that returns a pointer or
                 \* nothing, whether it found its node (or any node to clear)
    retNum,      \* the u_long it returned
    keyList,     \* the atList * keyList of the last getSortedList, after it
    valueList,   \* the atList * valueList of the last getSortedList, after it
    destroyed,   \* the items it deleted, in order
    notes,       \* the diagnostics it sent to notify()
    steps,       \* the branches of the private functions it went through
    fault,       \* it dereferenced NULL
    entries,     \* the key-to-value function the calls so far describe
    script       \* the keys of the calls of the round trip made so far

vars == <<heap, treeRoot, treeSize, call, retItem, retBool, retNum, keyList,
          valueList, destroyed,
          notes, steps, fault, entries, script>>

\* The machine a call starts with.
Machine == [heap |-> heap, root |-> treeRoot, destroyed |-> <<>>, notes |-> {},
            steps |-> <<>>, fault |-> FALSE]

\* p->f = v.  A store through NULL is a fault.
Put(m, p, f, v) ==
    IF p = NULL THEN [m EXCEPT !.fault = TRUE]
    ELSE [m EXCEPT !.heap[p][f] = v]

notify(m, text) == [m EXCEPT !.notes = @ \cup {text}]

\* The branch the code is in, recorded for the properties that speak of it.
Step(m, name) == [m EXCEPT !.steps = Append(@, name)]

\* delete item.
DeleteItem(m, item) ==
    IF item # NullItem THEN [m EXCEPT !.destroyed = Append(@, item)] ELSE m

\* delete node.
FreeNodeAt(m, node) ==
    IF node = NULL THEN m ELSE [m EXCEPT !.heap[node] = FreeNode]

\* new atMapNode: an address not in use.
NewNode(h) == CHOOSE n \in Nodes : h[n] = FreeNode /\ \A o \in Nodes : o < n => h[o] # FreeNode

\* --------------------------------------------------------------- findNode

RECURSIVE findNode(_, _, _)

\* Mutant: the search goes left for a greater key and right otherwise.
findNodeWrongWay(h, node, key) ==
    IF node = NULL THEN NULL
    ELSE IF equals(h[node].nodeKey, key) THEN node
    ELSE IF compare(key, h[node].nodeKey) > 0
         THEN findNode(h, h[node].leftChild, key)
         ELSE findNode(h, h[node].rightChild, key)

findNode(h, node, key) ==
    IF node = NULL THEN NULL
    ELSE IF equals(h[node].nodeKey, key) THEN node
    ELSE IF compare(key, h[node].nodeKey) > 0
         THEN findNode(h, h[node].rightChild, key)
         ELSE findNode(h, h[node].leftChild, key)

\* ----------------------------------------------------------- getChildType

getChildType(h, node) ==
    LET parent == h[node].parent
    IN  IF parent = NULL THEN AT_MAP_ROOTNODE
        ELSE IF h[parent].leftChild = node THEN AT_MAP_LEFTCHILD
        ELSE IF h[parent].rightChild = node THEN AT_MAP_RIGHTCHILD
        ELSE NotAChild

RECURSIVE LinkedBelow(_, _, _, _)
\* Every node of the subtree at n has the node above it as its parent; a
\* chain of child links longer than fuel is a cycle.
LinkedBelow(h, n, parent, fuel) ==
    IF n = NULL THEN TRUE
    ELSE IF fuel = 0 THEN FALSE
    ELSE /\ h[n].parent = parent
         /\ LinkedBelow(h, h[n].leftChild, n, fuel - 1)
         /\ LinkedBelow(h, h[n].rightChild, n, fuel - 1)

\* The root has no parent and every other node of the tree is a child of the
\* node its parent link names.
LinksConsistent(h, root) == LinkedBelow(h, root, NULL, MaxKey + 1)

\* The diagnostic getChildType sends when it returns -1; the model also
\* records a call of getChildType on a tree whose parent links are broken.
NoteChildType(m, node) ==
    LET m0 == IF LinksConsistent(m.heap, m.root) THEN m
              ELSE Step(m, "getChildType:brokenLinks")
    IN  IF getChildType(m.heap, node) = NotAChild
        THEN notify(m0, "getChildType: not a child of its own parent")
        ELSE m0

\* -------------------------------------------------------------- rotations

\* Mutant: the child that changes sides keeps its parent link (lines
\* 834-835 left out).
rotateLeftChildKeepsParent(m, node) ==
    IF m.heap[node].rightChild = NULL
    THEN notify(m, "rotateLeft: no right child")
    ELSE LET left == node
             right == m.heap[left].rightChild
             child == m.heap[right].leftChild
             parent == m.heap[left].parent
             childType == getChildType(m.heap, node)
             m0 == Step(NoteChildType(m, node), "rotateLeft")
             m1 == [m0 EXCEPT !.heap[left].rightChild = child,
                              !.heap[left].parent = right,
                              !.heap[right].leftChild = left,
                              !.heap[right].parent = parent]
             m2 == m1
         IN  IF childType = AT_MAP_LEFTCHILD THEN Put(m2, parent, "leftChild", right)
             ELSE IF childType = AT_MAP_RIGHTCHILD THEN Put(m2, parent, "rightChild", right)
             ELSE [m2 EXCEPT !.root = right]

rotateLeft(m, node) ==
    IF m.heap[node].rightChild = NULL
    THEN notify(m, "rotateLeft: no right child")
    ELSE LET left == node
             right == m.heap[left].rightChild
             child == m.heap[right].leftChild
             parent == m.heap[left].parent
             childType == getChildType(m.heap, node)
             m0 == Step(NoteChildType(m, node), "rotateLeft")
             m1 == [m0 EXCEPT !.heap[left].rightChild = child,
                              !.heap[left].parent = right,
                              !.heap[right].leftChild = left,
                              !.heap[right].parent = parent]
             m2 == IF child # NULL THEN Put(m1, child, "parent", left) ELSE m1
         IN  IF childType = AT_MAP_LEFTCHILD THEN Put(m2, parent, "leftChild", right)
             ELSE IF childType = AT_MAP_RIGHTCHILD THEN Put(m2, parent, "rightChild", right)
             ELSE [m2 EXCEPT !.root = right]

rotateRight(m, node) ==
    IF m.heap[node].leftChild = NULL
    THEN notify(m, "rotateRight: no left child")
    ELSE LET right == node
             left == m.heap[right].leftChild
             child == m.heap[left].rightChild
             parent == m.heap[right].parent
             childType == getChildType(m.heap, node)
             m0 == Step(NoteChildType(m, node), "rotateRight")
             m1 == [m0 EXCEPT !.heap[right].leftChild = child,
                              !.heap[right].parent = left,
                              !.heap[left].rightChild = right,
                              !.heap[left].parent = parent]
             m2 == IF child # NULL THEN Put(m1, child, "parent", right) ELSE m1
         IN  IF childType = AT_MAP_LEFTCHILD THEN Put(m2, parent, "leftChild", left)
             ELSE IF childType = AT_MAP_RIGHTCHILD THEN Put(m2, parent, "rightChild", left)
             ELSE [m2 EXCEPT !.root = left]

\* -------------------------------------------------------- rebalanceInsert

RECURSIVE rebalanceInsert(_, _)

\* Mutant: an inner grandchild is not rotated to the outside before the
\* rotation at the grandparent.
rebalanceInsertNoStraighten(m, node) ==
    LET h == m.heap
        parent == h[node].parent
        grandparent == h[parent].parent
        parentChildType == getChildType(h, parent)
        uncle == IF parentChildType = AT_MAP_LEFTCHILD
                 THEN h[grandparent].rightChild
                 ELSE h[grandparent].leftChild
        mc == Step(NoteChildType(NoteChildType(m, parent), node), "insert:rotate")
    IN  IF h[node].color = AT_MAP_BLACK THEN m
        ELSE IF parent = NULL THEN m
        ELSE IF h[parent].color = AT_MAP_BLACK THEN m
        ELSE IF grandparent = NULL THEN m
        ELSE IF uncle # NULL /\ h[uncle].color = AT_MAP_RED
        THEN rebalanceInsert(
                 Put(Put(Put(Step(NoteChildType(m, parent), "insert:recolor"),
                             grandparent, "color", AT_MAP_RED),
                         parent, "color", AT_MAP_BLACK),
                     uncle, "color", AT_MAP_BLACK),
                 grandparent)
        ELSE IF parentChildType = AT_MAP_LEFTCHILD
        THEN Put(Put(rotateRight(mc, grandparent), parent, "color", AT_MAP_BLACK),
                 grandparent, "color", AT_MAP_RED)
        ELSE Put(Put(rotateLeft(mc, grandparent), parent, "color", AT_MAP_BLACK),
                 grandparent, "color", AT_MAP_RED)

\* Mutant: the rotation at the parent is made for an outer grandchild
\* instead of an inner one.
rebalanceInsertTurnsOuter(m, node) ==
    LET h == m.heap
        parent == h[node].parent
        grandparent == h[parent].parent
        parentChildType == getChildType(h, parent)
        uncle == IF parentChildType = AT_MAP_LEFTCHILD
                 THEN h[grandparent].rightChild
                 ELSE h[grandparent].leftChild
        nodeChildType == getChildType(h, node)
        mc == Step(NoteChildType(NoteChildType(m, parent), node), "insert:rotate")
    IN  IF h[node].color = AT_MAP_BLACK THEN m
        ELSE IF parent = NULL THEN m
        ELSE IF h[parent].color = AT_MAP_BLACK THEN m
        ELSE IF grandparent = NULL THEN m
        ELSE IF uncle # NULL /\ h[uncle].color = AT_MAP_RED
        THEN rebalanceInsert(
                 Put(Put(Put(Step(NoteChildType(m, parent), "insert:recolor"),
                             grandparent, "color", AT_MAP_RED),
                         parent, "color", AT_MAP_BLACK),
                     uncle, "color", AT_MAP_BLACK),
                 grandparent)
        ELSE IF parentChildType = AT_MAP_LEFTCHILD
        THEN LET m1 == IF nodeChildType = AT_MAP_LEFTCHILD
                       THEN rotateLeft(mc, parent) ELSE mc
                 \* after the rotation: node = parent; parent = node->parent
                 parent1 == IF nodeChildType = AT_MAP_LEFTCHILD
                            THEN m1.heap[parent].parent ELSE parent
                 m2 == rotateRight(m1, grandparent)
             IN  Put(Put(m2, parent1, "color", AT_MAP_BLACK),
                     grandparent, "color", AT_MAP_RED)
        ELSE LET m1 == IF nodeChildType = AT_MAP_RIGHTCHILD
                       THEN rotateRight(mc, parent) ELSE mc
                 parent1 == IF nodeChildType = AT_MAP_RIGHTCHILD
                            THEN m1.heap[parent].parent ELSE parent
                 m2 == rotateLeft(m1, grandparent)
             IN  Put(Put(m2, parent1, "color", AT_MAP_BLACK),
                     grandparent, "color", AT_MAP_RED)

\* Mutant: the colors of parent and grandparent are not swapped after the
\* rotation at the grandparent.
rebalanceInsertKeepsColors(m, node) ==
    LET h == m.heap
        parent == h[node].parent
        grandparent == h[parent].parent
        parentChildType == getChildType(h, parent)
        uncle == IF parentChildType = AT_MAP_LEFTCHILD
                 THEN h[grandparent].rightChild
                 ELSE h[grandparent].leftChild
        nodeChildType == getChildType(h, node)
        mc == Step(NoteChildType(NoteChildType(m, parent), node), "insert:rotate")
    IN  IF h[node].color = AT_MAP_BLACK THEN m
        ELSE IF parent = NULL THEN m
        ELSE IF h[parent].color = AT_MAP_BLACK THEN m
        ELSE IF grandparent = NULL THEN m
        ELSE IF uncle # NULL /\ h[uncle].color = AT_MAP_RED
        THEN rebalanceInsert(
                 Put(Put(Put(Step(NoteChildType(m, parent), "insert:recolor"),
                             grandparent, "color", AT_MAP_RED),
                         parent, "color", AT_MAP_BLACK),
                     uncle, "color", AT_MAP_BLACK),
                 grandparent)
        ELSE IF parentChildType = AT_MAP_LEFTCHILD
        THEN LET m1 == IF nodeChildType = AT_MAP_RIGHTCHILD
                       THEN rotateLeft(mc, parent) ELSE mc
                 \* after the rotation: node = parent; parent = node->parent
                 parent1 == IF nodeChildType = AT_MAP_RIGHTCHILD
                            THEN m1.heap[parent].parent ELSE parent
                 m2 == rotateRight(m1, grandparent)
             IN  m2
        ELSE LET m1 == IF nodeChildType = AT_MAP_LEFTCHILD
                       THEN rotateRight(mc, parent) ELSE mc
                 parent1 == IF nodeChildType = AT_MAP_LEFTCHILD
                            THEN m1.heap[parent].parent ELSE parent
                 m2 == rotateLeft(m1, grandparent)
             IN  m2

rebalanceInsert(m, node) ==
    LET h == m.heap
        parent == h[node].parent
        grandparent == h[parent].parent
        parentChildType == getChildType(h, parent)
        uncle == IF parentChildType = AT_MAP_LEFTCHILD
                 THEN h[grandparent].rightChild
                 ELSE h[grandparent].leftChild
        nodeChildType == getChildType(h, node)
        mc == Step(NoteChildType(NoteChildType(m, parent), node), "insert:rotate")
    IN  IF h[node].color = AT_MAP_BLACK THEN m
        ELSE IF parent = NULL THEN m
        ELSE IF h[parent].color = AT_MAP_BLACK THEN m
        ELSE IF grandparent = NULL THEN m
        ELSE IF uncle # NULL /\ h[uncle].color = AT_MAP_RED
        THEN rebalanceInsert(
                 Put(Put(Put(Step(NoteChildType(m, parent), "insert:recolor"),
                             grandparent, "color", AT_MAP_RED),
                         parent, "color", AT_MAP_BLACK),
                     uncle, "color", AT_MAP_BLACK),
                 grandparent)
        ELSE IF parentChildType = AT_MAP_LEFTCHILD
        THEN LET m1 == IF nodeChildType = AT_MAP_RIGHTCHILD
                       THEN rotateLeft(mc, parent) ELSE mc
                 \* after the rotation: node = parent; parent = node->parent
                 parent1 == IF nodeChildType = AT_MAP_RIGHTCHILD
                            THEN m1.heap[parent].parent ELSE parent
                 m2 == rotateRight(m1, grandparent)
             IN  Put(Put(m2, parent1, "color", AT_MAP_BLACK),
                     grandparent, "color", AT_MAP_RED)
        ELSE LET m1 == IF nodeChildType = AT_MAP_LEFTCHILD
                       THEN rotateRight(mc, parent) ELSE mc
                 parent1 == IF nodeChildType = AT_MAP_LEFTCHILD
                            THEN m1.heap[parent].parent ELSE parent
                 m2 == rotateLeft(m1, grandparent)
             IN  Put(Put(m2, parent1, "color", AT_MAP_BLACK),
                     grandparent, "color", AT_MAP_RED)

\* -------------------------------------------------------- rebalanceDelete

\* A pointer the code dereferences without a test: NULL there is a fault.
Deref(m, p) == IF p = NULL THEN [m EXCEPT !.fault = TRUE] ELSE m

IsBlackOrNull(h, p) == p = NULL \/ h[p].color = AT_MAP_BLACK

\* The comment of lines 471-476 says the sibling must exist, that of lines
\* 523-524 and 576-577 that the sibling's outer child must be red: the model
\* records where the code finds it otherwise.
NoteSibling(m, sibling) ==
    IF sibling = NULL THEN Step(Deref(m, NULL), "delete:noSibling") ELSE m

NoteOuter(m, outer) ==
    IF outer # NULL /\ m.heap[outer].color = AT_MAP_RED THEN m
    ELSE Step(m, "delete:outerNotRed")

\* Lines 528 and 581: the sibling's outer child is made black.
BlackenOuter(m, outer) == Put(NoteOuter(m, outer), outer, "color", AT_MAP_BLACK)

RECURSIVE rebalanceDelete(_, _, _)

\* Lines 485-491: a red sibling is rotated up and made black, the parent red.
RedSiblingLeft(m, parent, sibling) ==
    Put(Put(rotateLeft(Step(m, "delete:redSibling"), parent),
            parent, "color", AT_MAP_RED),
        sibling, "color", AT_MAP_BLACK)

\* Lines 514-521: the sibling's red inner child is made black, the sibling red,
\* and the inner child rotated into the sibling's place.
TurnInnerLeft(m, sibling) ==
    rotateRight(Put(Put(Step(m, "delete:innerRed"),
                    m.heap[sibling].leftChild, "color", AT_MAP_BLACK),
                sibling, "color", AT_MAP_RED),
            sibling)

\* Lines 526-528: after the final rotation the sibling takes the parent's
\* color, the parent and the sibling's outer child are made black.
FinalColorsLeft(m, parent, sibling) ==
    LET m5 == Put(Put(m, sibling, "color", m.heap[parent].color),
                  parent, "color", AT_MAP_BLACK)
    IN  BlackenOuter(m5, m5.heap[sibling].rightChild)

\* Lines 523-528: the final rotation at the parent; sibling is the parent's
\* rightChild as the code last fetched it.
FinalRotateLeft(m, parent) ==
    FinalColorsLeft(rotateLeft(Step(m, "delete:finalRotate"), parent), parent,
                    m.heap[parent].rightChild)

\* Mutant: a red inner child of the sibling is not rotated to the outside
\* before the final rotation.
BlackSiblingLeftNoTurn(m, parent) ==
    LET sibling == m.heap[parent].rightChild
    IN  IF sibling = NULL THEN NoteSibling(m, NULL)
        ELSE IF IsBlackOrNull(m.heap, m.heap[sibling].leftChild)
                /\ IsBlackOrNull(m.heap, m.heap[sibling].rightChild)
        THEN rebalanceDelete(
                 NoteChildType(Put(Step(m, "delete:recolorSibling"),
                                   sibling, "color", AT_MAP_RED), parent),
                 m.heap[parent].parent, getChildType(m.heap, parent))
        ELSE FinalRotateLeft(m, parent)

\* Lines 493-528: the sibling, black by now, is fetched from the parent; with
\* two black or absent children it is made red and the parent's level
\* rebalanced, else the tree is rotated.
BlackSiblingLeft(m, parent) ==
    LET sibling == m.heap[parent].rightChild
        inner == m.heap[sibling].leftChild
    IN  IF sibling = NULL THEN NoteSibling(m, NULL)
        ELSE IF IsBlackOrNull(m.heap, m.heap[sibling].leftChild)
                /\ IsBlackOrNull(m.heap, m.heap[sibling].rightChild)
        THEN rebalanceDelete(
                 NoteChildType(Put(Step(m, "delete:recolorSibling"),
                                   sibling, "color", AT_MAP_RED), parent),
                 m.heap[parent].parent, getChildType(m.heap, parent))
        ELSE FinalRotateLeft(
                 IF inner # NULL /\ m.heap[inner].color = AT_MAP_RED
                 THEN TurnInnerLeft(m, sibling) ELSE m,
                 parent)

\* Lines 537-543: a red sibling is rotated up and made black, the parent red.
RedSiblingRight(m, parent, sibling) ==
    Put(Put(rotateRight(Step(m, "delete:redSibling"), parent),
            parent, "color", AT_MAP_RED),
        sibling, "color", AT_MAP_BLACK)

\* Lines 567-574: the sibling's red inner child is made black, the sibling red,
\* and the inner child rotated into the sibling's place.
TurnInnerRight(m, sibling) ==
    rotateLeft(Put(Put(Step(m, "delete:innerRed"),
                    m.heap[sibling].rightChild, "color", AT_MAP_BLACK),
                sibling, "color", AT_MAP_RED),
            sibling)

\* Lines 579-581: after the final rotation the sibling takes the parent's
\* color, the parent and the sibling's outer child are made black.
FinalColorsRight(m, parent, sibling) ==
    LET m5 == Put(Put(m, sibling, "color", m.heap[parent].color),
                  parent, "color", AT_MAP_BLACK)
    IN  BlackenOuter(m5, m5.heap[sibling].leftChild)

\* Lines 576-581: the final rotation at the parent; sibling is the parent's
\* leftChild as the code last fetched it.
FinalRotateRight(m, parent) ==
    FinalColorsRight(rotateRight(Step(m, "delete:finalRotate"), parent), parent,
                    m.heap[parent].leftChild)

\* Lines 545-581: the sibling, black by now, is fetched from the parent; with
\* two black or absent children it is made red and the parent's level
\* rebalanced, else the tree is rotated.
BlackSiblingRight(m, parent) ==
    LET sibling == m.heap[parent].leftChild
        inner == m.heap[sibling].rightChild
    IN  IF sibling = NULL THEN NoteSibling(m, NULL)
        ELSE IF IsBlackOrNull(m.heap, m.heap[sibling].leftChild)
                /\ IsBlackOrNull(m.heap, m.heap[sibling].rightChild)
        THEN rebalanceDelete(
                 NoteChildType(Put(Step(m, "delete:recolorSibling"),
                                   sibling, "color", AT_MAP_RED), parent),
                 m.heap[parent].parent, getChildType(m.heap, parent))
        ELSE FinalRotateRight(
                 IF inner # NULL /\ m.heap[inner].color = AT_MAP_RED
                 THEN TurnInnerRight(m, sibling) ELSE m,
                 parent)

\* The branch for a deleted left child (lines 477-529).
rebalanceDeleteLeft(m, parent) ==
    LET sibling == m.heap[parent].rightChild
    IN  IF sibling = NULL THEN NoteSibling(m, NULL)
        ELSE BlackSiblingLeft(
                 IF m.heap[sibling].color = AT_MAP_RED
                 THEN RedSiblingLeft(m, parent, sibling) ELSE m,
                 parent)

\* The mirror branch for a deleted right child (lines 530-582).
rebalanceDeleteRight(m, parent) ==
    LET sibling == m.heap[parent].leftChild
    IN  IF sibling = NULL THEN NoteSibling(m, NULL)
        ELSE BlackSiblingRight(
                 IF m.heap[sibling].color = AT_MAP_RED
                 THEN RedSiblingRight(m, parent, sibling) ELSE m,
                 parent)

\* Mutant: a red child in the gap is left red.
rebalanceDeleteKeepsRed(m, parent, deletedChildType) ==
    LET child == IF deletedChildType = AT_MAP_LEFTCHILD
                 THEN m.heap[parent].leftChild
                 ELSE m.heap[parent].rightChild
    IN  IF deletedChildType = AT_MAP_ROOTNODE THEN Step(m, "delete:root")
        ELSE IF parent = NULL THEN Deref(m, NULL)
        ELSE IF child # NULL /\ m.heap[child].color = AT_MAP_RED
        THEN Step(m, "delete:redChild")
        ELSE IF deletedChildType = AT_MAP_LEFTCHILD
        THEN rebalanceDeleteLeft(m, parent)
        ELSE rebalanceDeleteRight(m, parent)

rebalanceDelete(m, parent, deletedChildType) ==
    LET child == IF deletedChildType = AT_MAP_LEFTCHILD
                 THEN m.heap[parent].leftChild
                 ELSE m.heap[parent].rightChild
    IN  IF deletedChildType = AT_MAP_ROOTNODE THEN Step(m, "delete:root")
        ELSE IF parent = NULL THEN Deref(m, NULL)
        ELSE IF child # NULL /\ m.heap[child].color = AT_MAP_RED
        THEN Put(Step(m, "delete:redChild"), child, "color", AT_MAP_BLACK)
        ELSE IF deletedChildType = AT_MAP_LEFTCHILD
        THEN rebalanceDeleteLeft(m, parent)
        ELSE rebalanceDeleteRight(m, parent)

\* ---------------------------------------------------- getInorderSuccessor

RECURSIVE Leftmost(_, _)
\* while (result->leftChild) result = result->leftChild;
Leftmost(h, result) ==
    IF h[result].leftChild # NULL THEN Leftmost(h, h[result].leftChild) ELSE result

\* Mutant: the descent of lines 785-786 is made once, not in a loop.
getInorderSuccessorOneDown(h, node) ==
    IF h[node].rightChild = NULL THEN NULL
    ELSE IF h[h[node].rightChild].leftChild # NULL
    THEN h[h[node].rightChild].leftChild
    ELSE h[node].rightChild

\* Mutant: the right child is taken without going down to its leftmost node.
getInorderSuccessorNoDescent(h, node) ==
    IF h[node].rightChild = NULL THEN NULL
    ELSE h[node].rightChild

getInorderSuccessor(h, node) ==
    IF h[node].rightChild = NULL THEN NULL
    ELSE Leftmost(h, h[node].rightChild)

\* ----------------------------------------------- deleteNode and removeNode

\* Lines 604-609 and 638-643: the parent's link to the node is set to child.
Rechild(m, parent, childType, child) ==
    IF childType = AT_MAP_LEFTCHILD THEN Put(m, parent, "leftChild", child)
    ELSE IF childType = AT_MAP_RIGHTCHILD THEN Put(m, parent, "rightChild", child)
    ELSE [m EXCEPT !.root = child]

\* Mutant: the keys are swapped and the values are not.
SwapKeysOnly(m, node, child) ==
    Put(Put(Deref(m, child), node, "nodeKey", m.heap[child].nodeKey),
        child, "nodeKey", m.heap[node].nodeKey)

\* Mutant: the values are swapped and the keys are not.
SwapValuesOnly(m, node, child) ==
    Put(Put(Deref(m, child), node, "nodeValue", m.heap[child].nodeValue),
        child, "nodeValue", m.heap[node].nodeValue)

\* Lines 666-674: the keys and the values of node and child are swapped.
SwapItems(m, node, child) ==
    LET k == m.heap[node].nodeKey
        v == m.heap[node].nodeValue
    IN  Put(Put(Put(Put(Deref(m, child),
                        node, "nodeKey", m.heap[child].nodeKey),
                    child, "nodeKey", k),
                node, "nodeValue", m.heap[child].nodeValue),
            child, "nodeValue", v)

\* Mutant: the node's value is not deleted.
DeleteNodeAndKey(m, node) ==
    FreeNodeAt(DeleteItem(m, m.heap[node].nodeKey), node)

\* Lines 616-620: the node's key and value are deleted, then the node.
DeleteNodeAndItems(m, node) ==
    FreeNodeAt(DeleteItem(DeleteItem(m, m.heap[node].nodeKey),
                          m.heap[node].nodeValue),
               node)

\* Mutant: rebalanceDelete is called whatever the color of the node (the
\* tests of lines 611 and 645 left out).
UnlinkAlwaysRebalances(m, node) ==
    LET h == m.heap
        childType == getChildType(h, node)
        parent == h[node].parent
        child == IF h[node].leftChild # NULL THEN h[node].leftChild
                 ELSE h[node].rightChild
        m0 == Step(Step(NoteChildType(m, node),
                        IF child = NULL THEN "unlink:leaf" ELSE "unlink:oneChild"),
                   IF h[node].color = AT_MAP_BLACK THEN "unlink:black" ELSE "unlink:red")
        m1 == IF child = NULL THEN Rechild(m0, parent, childType, NULL)
              ELSE Rechild(Put(m0, child, "parent", parent), parent, childType, child)
    IN  rebalanceDelete(m1, parent, childType)

\* The node is unlinked and the tree rebalanced: the part deleteNode and
\* removeNode share in cases 1 and 2.
Unlink(m, node) ==
    LET h == m.heap
        childType == getChildType(h, node)
        parent == h[node].parent
        child == IF h[node].leftChild # NULL THEN h[node].leftChild
                 ELSE h[node].rightChild
        m0 == Step(Step(NoteChildType(m, node),
                        IF child = NULL THEN "unlink:leaf" ELSE "unlink:oneChild"),
                   IF h[node].color = AT_MAP_BLACK THEN "unlink:black" ELSE "unlink:red")
        m1 == IF child = NULL THEN Rechild(m0, parent, childType, NULL)
              ELSE Rechild(Put(m0, child, "parent", parent), parent, childType, child)
    IN  IF h[node].color = AT_MAP_BLACK
        THEN rebalanceDelete(m1, parent, childType)
        ELSE m1

RECURSIVE deleteNode(_, _)
deleteNode(m, node) ==
    LET h == m.heap
    IN  IF h[node].leftChild = NULL \/ h[node].rightChild = NULL
        THEN LET m1 == Unlink(m, node)
             IN  DeleteNodeAndItems(m1, node)
        ELSE LET child == getInorderSuccessor(h, node)
             IN  deleteNode(SwapItems(Step(NoteChildType(m, node), "swapSuccessor"),
                                      node, child), child)

RECURSIVE removeNode(_, _)

\* Mutant: a black node is taken out without the call of rebalanceDelete
\* (lines 713-715 and 740-742 left out).
removeNodeNoRebalance(m, node) ==
    LET h == m.heap
        childType == getChildType(h, node)
        parent == h[node].parent
        child == IF h[node].leftChild # NULL THEN h[node].leftChild
                 ELSE h[node].rightChild
    IN  IF h[node].leftChild = NULL \/ h[node].rightChild = NULL
        THEN FreeNodeAt(
                 IF child = NULL THEN Rechild(m, parent, childType, NULL)
                 ELSE Rechild(Put(m, child, "parent", parent), parent,
                              childType, child),
                 node)
        ELSE LET next == getInorderSuccessor(h, node)
             IN  removeNode(SwapItems(m, node, next), next)

\* Mutant: the node is taken out by deleteNode, which deletes its items.
removeNodeDeleting(m, node) == deleteNode(m, node)

removeNode(m, node) ==
    LET h == m.heap
    IN  IF h[node].leftChild = NULL \/ h[node].rightChild = NULL
        THEN LET m1 == Unlink(m, node)
             IN  FreeNodeAt(m1, node)
        ELSE LET child == getInorderSuccessor(h, node)
             IN  removeNode(SwapItems(Step(NoteChildType(m, node), "swapSuccessor"),
                                      node, child), child)

\* -------------------------------------------------------------- deleteTree

\* Mutant: the right subtree is left as it is.
RECURSIVE deleteTreeLeftOnly(_, _)
deleteTreeLeftOnly(m, node) ==
    IF node = NULL THEN m
    ELSE DeleteNodeAndItems(deleteTreeLeftOnly(m, m.heap[node].leftChild), node)

RECURSIVE deleteTree(_, _)
deleteTree(m, node) ==
    IF node = NULL THEN m
    ELSE LET l == m.heap[node].leftChild
             r == m.heap[node].rightChild
         IN  DeleteNodeAndItems(deleteTree(deleteTree(m, l), r), node)

\* ---------------------------------------------------------- node addresses

RECURSIVE InOrder(_, _, _)
\* The nodes of the subtree at n in in-order, following child links at most
\* fuel deep.
InOrder(h, n, fuel) ==
    IF n = NULL \/ fuel = 0 THEN <<>>
    ELSE InOrder(h, h[n].leftChild, fuel - 1) \o <<n>>
         \o InOrder(h, h[n].rightChild, fuel - 1)

Range(s) == {s[i] : i \in 1..Len(s)}

\* The address of a node says nothing to a caller, so the model names the
\* nodes by their in-order position once a call has returned: the i-th node
\* of the tree gets address i, the other addresses keep their order behind
\* them.  The renaming is a bijection on the addresses, applied to every
\* pointer, so each link of the heap is kept as it is.
Canon(h, root) ==
    LET order == InOrder(h, root, MaxKey)
        count == Len(order)
        new(n) == IF n = NULL THEN NULL
                  ELSE CHOOSE i \in 1..count : order[i] = n
        move(r) == [r EXCEPT !.leftChild = new(@), !.rightChild = new(@),
                             !.parent = new(@)]
    IN  IF \/ count # Cardinality(Range(order))
           \/ \E n \in Nodes \ Range(order) : h[n] # FreeNode
        THEN [heap |-> h, root |-> root]
        ELSE [heap |-> [i \in {NULL} \cup Nodes |->
                            IF i = NULL THEN h[NULL]
                            ELSE IF i <= count THEN move(h[order[i]])
                            ELSE FreeNode],
              root |-> new(root)]

\* ------------------------------------------------------------ public calls

\* What a call leaves behind: the machine's heap and root under canonical
\* addresses, the size, and the record of the call.
Return(m, size, op, key, value, item, bool, map) ==
    LET c == Canon(m.heap, m.root)
    IN  /\ heap' = c.heap
        /\ treeRoot' = c.root
        /\ treeSize' = size
        /\ call' = [op |-> op, key |-> key, value |-> value]
        /\ retItem' = item
        /\ retBool' = bool
        /\ retNum' = 0
        /\ keyList' = NoList
        /\ valueList' = NoList
        /\ destroyed' = m.destroyed
        /\ notes' = m.notes
        /\ steps' = m.steps
        /\ fault' = m.fault
        /\ entries' = map

\* What a call that changed no node leaves behind.
ReturnSame(op, key, value, item, bool) ==
    /\ UNCHANGED <<heap, treeRoot, treeSize>>
    /\ call' = [op |-> op, key |-> key, value |-> value]
    /\ retItem' = item
    /\ retBool' = bool
    /\ retNum' = IF op = "getNumEntries" THEN treeSize ELSE 0
    /\ keyList' = NoList
    /\ valueList' = NoList
    /\ destroyed' = <<>>
    /\ notes' = {}
    /\ steps' = <<>>
    /\ fault' = FALSE
    /\ UNCHANGED entries

\* The key and value objects the tree holds.
StoredKeys == {heap[n].nodeKey : n \in Nodes} \ {NullItem}
StoredValues == {heap[n].nodeValue : n \in Nodes} \ {NullItem}

\* The key object a caller hands to addEntry for key k: its own one, or a
\* second instance when the map already holds the first.
OfferedKey(k) == IF OwnKey(k) \in StoredKeys THEN TmpKey(k) ELSE OwnKey(k)

\* The value object a caller hands over for key k: one the map does not hold.
OfferedValue(k) == IF Value(k, 1) \in StoredValues THEN Value(k, 2) ELSE Value(k, 1)

\* The key objects a caller looks key k up with: a second instance, or the
\* very object the map holds.
Probes(k) == {TmpKey(k)} \cup ({OwnKey(k)} \cap StoredKeys)

containsKey(h, root, key) == findNode(h, root, key) # NULL

getValue(h, root, key) ==
    LET node == findNode(h, root, key)
    IN  IF node # NULL THEN h[node].nodeValue ELSE NullItem

RECURSIVE Descend(_, _, _)
\* The loop of lines 92-131: newNode is hung below nodeParent.
Descend(m, nodeParent, newNode) ==
    LET h == m.heap
        m0 == Step(m, "descend")
    IN  IF compare(h[newNode].nodeKey, h[nodeParent].nodeKey) < 0
        THEN IF h[nodeParent].leftChild = NULL
             THEN Put(Put(m0, nodeParent, "leftChild", newNode),
                      newNode, "parent", nodeParent)
             ELSE Descend(m0, h[nodeParent].leftChild, newNode)
        ELSE LET m1 == IF equals(h[newNode].nodeKey, h[nodeParent].nodeKey)
                       THEN notify(m0, "Key collision detected in map!")
                       ELSE m0
             IN  IF h[nodeParent].rightChild = NULL
                 THEN Put(Put(m1, nodeParent, "rightChild", newNode),
                          newNode, "parent", nodeParent)
                 ELSE Descend(m1, h[nodeParent].rightChild, newNode)

\* Mutant: the new node is made black.
WithBlackNewNode(m, newNode, key, value) ==
    [m EXCEPT !.heap[newNode] =
        [nodeKey |-> key, nodeValue |-> value, leftChild |-> NULL,
         rightChild |-> NULL, parent |-> NULL, color |-> AT_MAP_BLACK]]

\* Lines 69-75: the new node, red, holding key and value.
WithNewNode(m, newNode, key, value) ==
    [m EXCEPT !.heap[newNode] =
        [nodeKey |-> key, nodeValue |-> value, leftChild |-> NULL,
         rightChild |-> NULL, parent |-> NULL, color |-> AT_MAP_RED]]

\* Mutant: the root keeps its color.
BlackenRootNot(m) == m

\* Lines 135, 162-163 and 205-206: the root, if any, is made black.
BlackenRoot(m) ==
    IF m.root # NULL THEN Put(m, m.root, "color", AT_MAP_BLACK) ELSE m

\* Lines 77-86: the new node becomes the root of an empty tree.
InsertAsRoot(m, newNode) ==
    Put([m EXCEPT !.root = newNode], newNode, "color", AT_MAP_BLACK)

\* Lines 88-135: the new node is placed and the tree cleaned up.
InsertBelowRoot(m, newNode) ==
    BlackenRoot(rebalanceInsert(Descend(m, m.root, newNode), newNode))

\* The model has MaxKey node addresses: a call that needs one more is not
\* taken.
HasFreeNode == \E n \in Nodes : heap[n] = FreeNode

\* Mutant: the containsKey test of lines 62-65 is left out.
AddEntryUnchecked(key, value) ==
    /\ ~fault
    /\ HasFreeNode
    /\ LET m == Machine
           newNode == NewNode(heap)
           m1 == WithNewNode(m, newNode, key, value)
           m2 == IF treeRoot = NULL THEN InsertAsRoot(m1, newNode)
                 ELSE InsertBelowRoot(m1, newNode)
       IN  Return(m2, treeSize + 1, "addEntry", key, value, NullItem, TRUE,
                  [entries EXCEPT ![key[2]] = value])

AddEntry(key, value) ==
    /\ ~fault
    /\ IF containsKey(heap, treeRoot, key) THEN TRUE ELSE HasFreeNode
    /\ LET m == Machine
       IN  IF containsKey(heap, treeRoot, key)
           THEN ReturnSame("addEntry", key, value, NullItem, FALSE)
           ELSE LET newNode == NewNode(heap)
                    m1 == WithNewNode(m, newNode, key, value)
                    m2 == IF treeRoot = NULL THEN InsertAsRoot(m1, newNode)
                          ELSE InsertBelowRoot(m1, newNode)
                IN  Return(m2, treeSize + 1, "addEntry", key, value, NullItem, TRUE,
                           [entries EXCEPT ![key[2]] = value])

\* Mutant: the size is not decreased.
DeleteEntryKeepsSize(key) ==
    /\ ~fault
    /\ LET m == Machine
           targetNode == findNode(heap, treeRoot, key)
       IN  IF targetNode = NULL
           THEN ReturnSame("deleteEntry", key, NullItem, NullItem, FALSE)
           ELSE Return(BlackenRoot(deleteNode(m, targetNode)), treeSize,
                       "deleteEntry", key, NullItem, NullItem, TRUE,
                       [entries EXCEPT ![key[2]] = NullItem])

DeleteEntry(key) ==
    /\ ~fault
    /\ LET m == Machine
           targetNode == findNode(heap, treeRoot, key)
       IN  IF targetNode = NULL
           THEN ReturnSame("deleteEntry", key, NullItem, NullItem, FALSE)
           ELSE Return(BlackenRoot(deleteNode(m, targetNode)), treeSize - 1,
                       "deleteEntry", key, NullItem, NullItem, TRUE,
                       [entries EXCEPT ![key[2]] = NullItem])

\* Mutant: the stored key is deleted unless it is equal to the caller's key.
DeleteUnequalKey(m, key, targetKey) ==
    IF ~equals(key, targetKey) THEN DeleteItem(m, targetKey) ELSE m

\* Lines 199-200: the stored key is deleted unless it is the caller's object.
DeleteOtherKey(m, key, targetKey) ==
    IF key # targetKey THEN DeleteItem(m, targetKey) ELSE m

RemoveEntry(key) ==
    /\ ~fault
    /\ LET m == Machine
           targetNode == findNode(heap, treeRoot, key)
           targetKey == heap[targetNode].nodeKey
           targetValue == heap[targetNode].nodeValue
       IN  IF targetNode = NULL
           THEN ReturnSame("removeEntry", key, NullItem, NullItem, FALSE)
           ELSE Return(BlackenRoot(DeleteOtherKey(removeNode(m, targetNode),
                                                  key, targetKey)),
                       treeSize - 1, "removeEntry", key, NullItem, targetValue, TRUE,
                       [entries EXCEPT ![key[2]] = NullItem])

GetNumEntries ==
    /\ ~fault
    /\ ReturnSame("getNumEntries", NullItem, NullItem, NullItem, FALSE)

ContainsKey(key) ==
    /\ ~fault
    /\ ReturnSame("containsKey", key, NullItem, NullItem,
                  containsKey(heap, treeRoot, key))

\* Mutant: the entry that is found is taken out of the tree, as removeEntry
\* takes it out.
GetValueTakesEntry(key) ==
    /\ ~fault
    /\ LET node == findNode(heap, treeRoot, key)
       IN  IF node = NULL
           THEN ReturnSame("getValue", key, NullItem, NullItem, FALSE)
           ELSE Return(BlackenRoot(removeNode(Machine, node)), treeSize - 1,
                       "getValue", key, NullItem, heap[node].nodeValue, TRUE,
                       entries)

GetValue(key) ==
    /\ ~fault
    /\ ReturnSame("getValue", key, NullItem, getValue(heap, treeRoot, key),
                  getValue(heap, treeRoot, key) # NullItem)

\* Mutant: the old value is deleted instead of being handed back.
ChangeValueDeletesOld(key, newValue) ==
    /\ ~fault
    /\ LET m == Machine
           node == findNode(heap, treeRoot, key)
       IN  IF node = NULL
           THEN ReturnSame("changeValue", key, newValue, NullItem, FALSE)
           ELSE Return(DeleteItem(Put(m, node, "nodeValue", newValue),
                                  heap[node].nodeValue),
                       treeSize, "changeValue", key, newValue,
                       heap[node].nodeValue, TRUE,
                       [entries EXCEPT ![key[2]] = newValue])

\* Mutant: the new value is taken and deleted when the key is not there.
ChangeValueTakesValue(key, newValue) ==
    /\ ~fault
    /\ LET m == Machine
           node == findNode(heap, treeRoot, key)
       IN  IF node = NULL
           THEN Return(DeleteItem(m, newValue), treeSize, "changeValue", key,
                       newValue, NullItem, FALSE, entries)
           ELSE Return(Put(m, node, "nodeValue", newValue), treeSize,
                       "changeValue", key, newValue, heap[node].nodeValue, TRUE,
                       [entries EXCEPT ![key[2]] = newValue])

ChangeValue(key, newValue) ==
    /\ ~fault
    /\ LET m == Machine
           node == findNode(heap, treeRoot, key)
       IN  IF node = NULL
           THEN ReturnSame("changeValue", key, newValue, NullItem, FALSE)
           ELSE Return(Put(m, node, "nodeValue", newValue), treeSize,
                       "changeValue", key, newValue, heap[node].nodeValue, TRUE,
                       [entries EXCEPT ![key[2]] = newValue])

\* Mutant: a node's entry goes to the lists before those of its left subtree.
RECURSIVE fillListsNodeFirst(_, _, _, _)
fillListsNodeFirst(h, node, keys, values) ==
    IF node = NULL THEN <<keys, values>>
    ELSE LET own == <<IF keys.given
                      THEN atListAddEntry(keys, h[node].nodeKey)
                      ELSE keys,
                      IF values.given
                      THEN atListAddEntry(values, h[node].nodeValue)
                      ELSE values>>
             left == fillListsNodeFirst(h, h[node].leftChild, own[1], own[2])
         IN  fillListsNodeFirst(h, h[node].rightChild, left[1], left[2])

RECURSIVE fillLists(_, _, _, _)
\* Lines 952-969: the entries of the subtree at node go to the end of the
\* lists that are given, in order.  The result is <<keyList, valueList>>.
fillLists(h, node, keys, values) ==
    IF node = NULL THEN <<keys, values>>
    ELSE LET left == fillLists(h, h[node].leftChild, keys, values)
             own == <<IF left[1].given
                      THEN atListAddEntry(left[1], h[node].nodeKey)
                      ELSE left[1],
                      IF left[2].given
                      THEN atListAddEntry(left[2], h[node].nodeValue)
                      ELSE left[2]>>
         IN  fillLists(h, h[node].rightChild, own[1], own[2])

\* Lines 306-327: the length of the key list is compared with the size; that
\* of the value list only when no key list is given.
ListCheck(keys, values) ==
    IF keys.given
    THEN IF atListGetNumEntries(keys) # treeSize
         THEN {"atMap::getSortedList: Map Inconsistency"} ELSE {}
    ELSE IF values.given
    THEN IF atListGetNumEntries(values) # treeSize
         THEN {"atMap::getSortedList: Map Inconsistency"} ELSE {}
    ELSE {}

GetSortedList(keys, values) ==
    /\ ~fault
    /\ LET out == IF treeSize = 0 THEN <<keys, values>>
                  ELSE fillLists(heap, treeRoot, keys, values)
       IN  /\ keyList' = out[1]
           /\ valueList' = out[2]
           /\ notes' = IF treeSize = 0 THEN {} ELSE ListCheck(out[1], out[2])
    /\ UNCHANGED <<heap, treeRoot, treeSize, entries>>
    /\ call' = [op |-> "getSortedList", key |-> NullItem, value |-> NullItem]
    /\ retItem' = NullItem
    /\ retBool' = FALSE
    /\ retNum' = 0
    /\ destroyed' = <<>>
    /\ steps' = <<>>
    /\ fault' = FALSE

\* Mutant: the size is not reset.
ClearKeepsSize ==
    /\ ~fault
    /\ IF treeRoot = NULL
       THEN ReturnSame("clear", NullItem, NullItem, NullItem, FALSE)
       ELSE Return([deleteTree(Machine, treeRoot) EXCEPT !.root = NULL], treeSize,
                   "clear", NullItem, NullItem, NullItem, TRUE,
                   [k \in AllKeys |-> NullItem])

Clear ==
    /\ ~fault
    /\ IF treeRoot = NULL
       THEN ReturnSame("clear", NullItem, NullItem, NullItem, FALSE)
       ELSE Return([deleteTree(Machine, treeRoot) EXCEPT !.root = NULL], 0,
                   "clear", NullItem, NullItem, NullItem, TRUE,
                   [k \in AllKeys |-> NullItem])

\* ------------------------------------------------------------ specification

Init ==
    /\ heap = EmptyHeap
    /\ treeRoot = NULL
    /\ treeSize = 0
    /\ call = [op |-> "atMap", key |-> NullItem, value |-> NullItem]
    /\ retItem = NullItem
    /\ retBool = FALSE
    /\ retNum = 0
    /\ keyList = NoList
    /\ valueList = NoList
    /\ destroyed = <<>>
    /\ notes = {}
    /\ steps = <<>>
    /\ fault = FALSE
    /\ entries = [k \in AllKeys |-> NullItem]
    /\ script = <<>>

\* The caller has taken what the last call returned: the record of that call
\* is dropped, the map is as the call left it.
Taken == [op |-> "taken", key |-> NullItem, value |-> NullItem]

TakeResult ==
    /\ call # Taken
    /\ call' = Taken
    /\ retItem' = NullItem
    /\ retBool' = FALSE
    /\ retNum' = 0
    /\ keyList' = NoList
    /\ valueList' = NoList
    /\ destroyed' = <<>>
    /\ notes' = {}
    /\ steps' = <<>>
    /\ UNCHANGED <<heap, treeRoot, treeSize, fault, entries>>

\* The caller has taken what the last call returned.
Idle == call = Taken

\* The caller is single-threaded (spec section 5): it makes a call with
\* arguments of its choice, takes what the call returned, and only then makes
\* the next call.
Next ==
    \/ \E k \in Keys :
           Idle /\ AddEntry(OfferedKey(k), OfferedValue(k)) /\ UNCHANGED script
    \/ \E k \in Keys : \E key \in Probes(k) :
           Idle /\ DeleteEntry(key) /\ UNCHANGED script
    \/ \E k \in Keys : \E key \in Probes(k) :
           Idle /\ RemoveEntry(key) /\ UNCHANGED script
    \/ \E k \in Keys :
           /\ Idle
           /\ IF k \in Replaceable THEN TRUE ELSE OwnKey(k) \notin StoredKeys
           /\ ChangeValue(TmpKey(k), OfferedValue(k))
           /\ UNCHANGED script
    \/ \E k \in Keys : Idle /\ GetValue(TmpKey(k)) /\ UNCHANGED script
    \/ \E k \in Keys : Idle /\ ContainsKey(TmpKey(k)) /\ UNCHANGED script
    \/ Idle /\ GetNumEntries /\ UNCHANGED script
    \/ \E keys \in Lists : \E values \in Lists :
           Idle /\ GetSortedList(keys, values) /\ UNCHANGED script
    \/ Idle /\ Clear /\ UNCHANGED script
    \/ TakeResult /\ UNCHANGED script

Spec == Init /\ [][Next]_vars

\* ------------------------------------- keys whose compare and equals disagree

\* The spellings of the folding keys: two order values (1 and 2), three and
\* two spellings.
Spellings == {11, 12, 13, 21, 22}

\* The caller adds folding keys only; for every spelling it has two key
\* objects and hands each to the map at most once, with a value of its own.
FoldAdd(v, id) ==
    /\ FoldKey(v, id) \notin StoredKeys
    /\ id = 2 => FoldKey(v, 1) \in StoredKeys
    /\ AddEntry(FoldKey(v, id), Value(v, id))

FoldNext ==
    \/ \E v \in Spellings : \E id \in {1, 2} :
           Idle /\ FoldAdd(v, id) /\ UNCHANGED script
    \/ TakeResult /\ UNCHANGED script

Fold == Init /\ [][FoldNext]_vars

\* ------------------------------------------------------------ the round trip

\* The keys of spec section 8's round trip, in the order they are inserted,
\* and the two that are deleted afterwards.
Inserted == <<5, 3, 8, 1, 4, 7, 9>>

Deleted == <<3, 8>>

\* The script of the round trip: the insertions, the deletions and (0) the
\* sorted traversal.
RoundTripScript == Inserted \o Deleted \o <<0>>

\* The caller inserts the seven keys, in any order.
RoundTripAdd(k) ==
    /\ Len(script) < Len(Inserted)
    /\ k \notin Range(script)
    /\ AddEntry(OwnKey(k), Value(k, 1))
    /\ script' = Append(script, k)

\* Then it deletes 3 and then 8.
RoundTripDelete ==
    /\ Len(script) >= Len(Inserted)
    /\ Len(script) < Len(Inserted) + Len(Deleted)
    /\ DeleteEntry(TmpKey(Deleted[Len(script) - Len(Inserted) + 1]))
    /\ script' = Append(script, Deleted[Len(script) - Len(Inserted) + 1])

\* Then it asks for the sorted lists.
RoundTripList ==
    /\ Len(script) = Len(Inserted) + Len(Deleted)
    /\ GetSortedList(EmptyList, EmptyList)
    /\ script' = Append(script, 0)

RoundTripNext ==
    \/ \E k \in Range(Inserted) : Idle /\ RoundTripAdd(k)
    \/ Idle /\ RoundTripDelete
    \/ Idle /\ RoundTripList
    \/ TakeResult /\ UNCHANGED script

RoundTrip == Init /\ [][RoundTripNext]_vars

\* ------------------------------------------------------- the tree, observed

\* The nodes reachable from the root by child links.
NodesOf(h, root) == Range(InOrder(h, root, MaxKey))

TreeNodes == NodesOf(heap, treeRoot)

\* The nodes of the subtree below a child link.
Subtree(h, n) == Range(InOrder(h, n, MaxKey))

RECURSIVE BlackHeights(_, _, _)
\* The numbers of black nodes on the paths from n down to an absent child.
BlackHeights(h, n, fuel) ==
    IF n = NULL THEN {0}
    ELSE IF fuel = 0 THEN {-1}
    ELSE LET own == IF h[n].color = AT_MAP_BLACK THEN 1 ELSE 0
         IN  {x + own : x \in BlackHeights(h, h[n].leftChild, fuel - 1)
                              \cup BlackHeights(h, h[n].rightChild, fuel - 1)}

\* The <<key object, value object>> pairs the tree holds.
PairsOf(h, root) == {<<h[n].nodeKey, h[n].nodeValue>> : n \in NodesOf(h, root)}

Pairs == PairsOf(heap, treeRoot)

\* The node of the tree whose key is equal to key, if any (NULL if none),
\* found without the search of findNode.
HolderOf(h, root, key) ==
    IF \E n \in NodesOf(h, root) : equals(h[n].nodeKey, key)
    THEN CHOOSE n \in NodesOf(h, root) : equals(h[n].nodeKey, key)
    ELSE NULL

Holder(key) == HolderOf(heap, treeRoot, key)

Did(name) == name \in Range(steps)

\* ---------------------------------------------------------------- claims

\* C1: after every public call, every path from the root to an absent child
\* position passes through the same number of BLACK nodes.
BlackHeightBalance ==
    Cardinality(BlackHeights(heap, treeRoot, MaxKey + 1)) = 1

\* A deletion that met a red sibling, rotated it up and went on to the final
\* rotation, leaving a tree of five nodes.
BlackHeightWitness ==
    /\ call.op = "deleteEntry"
    /\ Did("delete:redSibling")
    /\ Did("delete:finalRotate")
    /\ treeSize = 5
    /\ BlackHeightBalance

\* C2: after every public call no RED node has a RED parent, whether the
\* parent is taken from the child links or from the node's parent link.
NoRedRed ==
    \A n \in TreeNodes :
        heap[n].color = AT_MAP_RED =>
            /\ \A c \in {heap[n].leftChild, heap[n].rightChild} \ {NULL} :
                   heap[c].color = AT_MAP_BLACK
            /\ heap[n].parent # NULL => heap[heap[n].parent].color = AT_MAP_BLACK

\* An insertion that needed both rotations and left red nodes in the tree.
NoRedRedWitness ==
    /\ call.op = "addEntry"
    /\ Did("insert:rotate")
    /\ Did("rotateLeft")
    /\ Did("rotateRight")
    /\ \E n \in TreeNodes : heap[n].color = AT_MAP_RED
    /\ NoRedRed

\* C3: after every public call, for every node all keys in its left subtree
\* compare strictly less than its key and all keys in its right subtree
\* compare strictly greater (so no two nodes hold equal keys).
BSTOrdered ==
    \A n \in TreeNodes :
        /\ \A l \in Subtree(heap, heap[n].leftChild) :
               compare(heap[l].nodeKey, heap[n].nodeKey) < 0
        /\ \A r \in Subtree(heap, heap[n].rightChild) :
               compare(heap[r].nodeKey, heap[n].nodeKey) > 0

\* A removal that swapped the pair with the in-order successor's, out of a
\* node that keeps both its subtrees.
BSTOrderedWitness ==
    /\ call.op \in {"deleteEntry", "removeEntry"}
    /\ Did("swapSuccessor")
    /\ \E n \in TreeNodes : heap[n].leftChild # NULL /\ heap[n].rightChild # NULL
    /\ BSTOrdered

\* C4: after every public call the root, if present, is BLACK.
RootBlack == treeRoot # NULL => heap[treeRoot].color = AT_MAP_BLACK

\* A deletion that spliced the only (red) child of the root into the root
\* position.
RootBlackWitness ==
    /\ call.op = "deleteEntry"
    /\ Did("unlink:oneChild")
    /\ Did("delete:root")
    /\ treeRoot # NULL
    /\ RootBlack

\* C5: treeSize is the number of nodes reachable from the root after every
\* call; a successful addEntry adds one, a successful deleteEntry or
\* removeEntry takes one away, and a failed call and changeValue leave it.
SizeConsistent ==
    /\ [](treeSize = Cardinality(TreeNodes))
    /\ [][/\ call'.op = "addEntry" /\ retBool' => treeSize' = treeSize + 1
          /\ call'.op \in {"deleteEntry", "removeEntry"} /\ retBool'
                => treeSize' = treeSize - 1
          /\ call'.op \in {"addEntry", "deleteEntry", "removeEntry"} /\ ~retBool'
                => treeSize' = treeSize
          /\ call'.op = "changeValue" => treeSize' = treeSize
          /\ call'.op = "clear" => treeSize' = 0]_vars

\* A successful removeEntry out of a tree of four nodes.
SizeWitness ==
    /\ call.op = "removeEntry"
    /\ retBool
    /\ treeSize = 3
    /\ Cardinality(TreeNodes) = 3

\* C6: getValue(k) returns the value most recently associated with k by a
\* successful addEntry or changeValue while k is present, and NULL for a key
\* never inserted or since deleted, removed or cleared; containsKey(k) is
\* true exactly for the present keys.
RefinesEntries ==
    \A k \in Keys :
        /\ getValue(heap, treeRoot, TmpKey(k)) = entries[k]
        /\ containsKey(heap, treeRoot, TmpKey(k)) <=> entries[k] # NullItem

\* A value was replaced by changeValue, and later an entry with two children
\* was deleted from the tree that holds it.
RefinesWitness ==
    /\ call.op = "deleteEntry"
    /\ Did("swapSuccessor")
    /\ \E k \in Replaceable : entries[k] = Value(k, 2)
    /\ \E k \in Keys : entries[k] = NullItem
    /\ RefinesEntries

\* C7: addEntry with a key equal to a key already present returns false and
\* leaves nodes, links, colors, stored objects and size as they were; the
\* offered key and value are neither stored nor deleted.
DuplicateAddRejected ==
    [][call'.op = "addEntry" /\ Holder(call'.key) # NULL =>
          /\ ~retBool'
          /\ heap' = heap
          /\ treeRoot' = treeRoot
          /\ treeSize' = treeSize
          /\ destroyed' = <<>>
          /\ call'.key \notin StoredKeys'
          /\ call'.value \notin StoredValues']_vars

\* A rejected addEntry on a tree of at least three nodes, offered a second
\* instance of a stored key and a value object the tree does not hold.
DuplicateAddWitness ==
    /\ call.op = "addEntry"
    /\ ~retBool
    /\ treeSize >= 3
    /\ Holder(call.key) # NULL
    /\ call.key \notin StoredKeys
    /\ call.value \in ValueObjects \ StoredValues

\* C8: deleteEntry(k) on a present key returns true, then getValue(k) is
\* NULL, the size is one less and every other entry is there with its value;
\* on an absent key it returns false and leaves tree, colors and size.
DeleteEntryEffect ==
    [][call'.op = "deleteEntry" =>
          LET key == call'.key
              n == Holder(key)
          IN  IF n # NULL
              THEN /\ retBool'
                   /\ getValue(heap', treeRoot', key) = NullItem
                   /\ treeSize' = treeSize - 1
                   /\ PairsOf(heap', treeRoot')
                          = Pairs \ {<<heap[n].nodeKey, heap[n].nodeValue>>}
                   /\ \A j \in Keys \ {key[2]} :
                          getValue(heap', treeRoot', TmpKey(j))
                              = getValue(heap, treeRoot, TmpKey(j))
              ELSE /\ ~retBool'
                   /\ heap' = heap
                   /\ treeRoot' = treeRoot
                   /\ treeSize' = treeSize]_vars

\* A successful deleteEntry whose rebalancing recolored a sibling and went
\* up the tree, leaving at least three entries.
DeleteEntryWitness ==
    /\ call.op = "deleteEntry"
    /\ retBool
    /\ Did("delete:recolorSibling")
    /\ treeSize >= 3
    /\ Holder(call.key) = NULL

\* C9: a successful deleteEntry(k) deletes the key object and the value
\* object stored for k and nothing else; every other stored pair, the
\* in-order successor's included, stays in the map and is not deleted.
DeleteEntryDestroys ==
    [][call'.op = "deleteEntry" /\ retBool' =>
          LET n == Holder(call'.key)
              pair == <<heap[n].nodeKey, heap[n].nodeValue>>
          IN  /\ n # NULL
              /\ Len(destroyed') = 2
              /\ Range(destroyed') = {pair[1], pair[2]}
              /\ \A p \in Pairs \ {pair} :
                     /\ p \in PairsOf(heap', treeRoot')
                     /\ p[1] \notin Range(destroyed')
                     /\ p[2] \notin Range(destroyed')]_vars

\* A deleteEntry of a node with two children, called with a second instance
\* of the key: the pair went to the successor node and was deleted there.
DeleteEntryDestroysWitness ==
    /\ call.op = "deleteEntry"
    /\ Did("swapSuccessor")
    /\ call.key = TmpKey(call.key[2])
    /\ Range(destroyed) = {OwnKey(call.key[2]), Value(call.key[2], 1)}
    /\ treeSize >= 2

RemoveEntryYieldsBoth ==
    [][call'.op = "removeEntry" =>
          LET n == Holder(call'.key)
          IN  IF n # NULL
              THEN /\ retItem' = heap[n].nodeValue
                   /\ HolderOf(heap', treeRoot', call'.key) = NULL
                   /\ heap[n].nodeKey \notin Range(destroyed')
                   /\ heap[n].nodeValue \notin Range(destroyed')
              ELSE retItem' = NullItem]_vars

\* C12: changeValue(k, v) on a present key returns the value object stored
\* before, not deleted; afterwards getValue(k) is v, and the links, the
\* colors, the stored keys, every other value and the size are as before.
ChangeValueEffect ==
    [][call'.op = "changeValue" /\ Holder(call'.key) # NULL =>
          LET n == Holder(call'.key)
          IN  /\ retItem' = heap[n].nodeValue
              /\ retItem' # NullItem
              /\ destroyed' = <<>>
              /\ getValue(heap', treeRoot', call'.key) = call'.value
              /\ heap' = [heap EXCEPT ![n].nodeValue = call'.value]
              /\ treeRoot' = treeRoot
              /\ treeSize' = treeSize]_vars

\* A changeValue that replaced the value of key 3 in a tree of at least
\* four nodes and handed the first value object back.
ChangeValueWitness ==
    /\ call.op = "changeValue"
    /\ retBool
    /\ call.key[2] = 3
    /\ retItem = Value(3, 1)
    /\ getValue(heap, treeRoot, TmpKey(3)) = Value(3, 2)
    /\ treeSize >= 4
    /\ destroyed = <<>>

\* C13: changeValue(k, v) on an absent key returns NULL and changes nothing:
\* the heap, the root and the size are as before, and v is neither stored
\* nor deleted.
ChangeValueAbsent ==
    [][call'.op = "changeValue" /\ Holder(call'.key) = NULL =>
          /\ retItem' = NullItem
          /\ heap' = heap
          /\ treeRoot' = treeRoot
          /\ treeSize' = treeSize
          /\ call'.value \notin StoredValues'
          /\ call'.value \notin Range(destroyed')
          /\ destroyed' = <<>>]_vars

\* A changeValue for a key that a tree of at least three nodes does not
\* hold.
ChangeValueAbsentWitness ==
    /\ call.op = "changeValue"
    /\ ~retBool
    /\ retItem = NullItem
    /\ Holder(call.key) = NULL
    /\ call.value \in ValueObjects \ StoredValues
    /\ treeSize >= 3

\* The items a call put at the end of a list.
Appended(list) == SubSeq(list.items, list.had + 1, Len(list.items))

\* C14: getSortedList puts exactly treeSize items at the end of each list it
\* is given; with lists that were empty, the key list holds the stored keys
\* in strictly ascending order and the value at index i of the value list is
\* the value stored for the key at index i of the key list.
SortedListFilled ==
    call.op = "getSortedList" =>
        /\ keyList.given => Len(Appended(keyList)) = treeSize
        /\ valueList.given => Len(Appended(valueList)) = treeSize
        /\ keyList.given /\ keyList.had = 0 =>
               /\ Range(keyList.items) = StoredKeys
               /\ \A i, j \in 1..Len(keyList.items) :
                      i < j => compare(keyList.items[i], keyList.items[j]) < 0
        /\ valueList.given /\ valueList.had = 0 =>
               Range(valueList.items) = StoredValues
        /\ keyList.given /\ valueList.given
           /\ keyList.had = 0 /\ valueList.had = 0 =>
               \A i \in 1..treeSize :
                   valueList.items[i]
                       = getValue(heap, treeRoot, keyList.items[i])

\* A getSortedList with two empty lists on a tree of at least five entries
\* whose root has a right subtree of more than one node.
SortedListWitness ==
    /\ call.op = "getSortedList"
    /\ keyList = [EmptyList EXCEPT !.items = keyList.items]
    /\ valueList = [EmptyList EXCEPT !.items = valueList.items]
    /\ treeSize >= 5
    /\ Len(keyList.items) = treeSize
    /\ Len(valueList.items) = treeSize
    /\ Cardinality(Subtree(heap, heap[treeRoot].rightChild)) >= 2

\* C15: after getSortedList, for each list that was given (the key list, the
\* value list or both), a length that differs from treeSize has been
\* reported as a map inconsistency, whatever the size of the map.
ListMismatchReported ==
    call.op = "getSortedList" =>
        \A list \in {keyList, valueList} :
            list.given /\ atListGetNumEntries(list) # treeSize =>
                "atMap::getSortedList: Map Inconsistency" \in notes

\* C16: clear() deletes every node and, exactly once each, every stored key
\* and value, and leaves no root and size 0; on an empty map it changes
\* nothing and deletes nothing, so that a second clear in a row leaves the
\* state of the first and adds nothing to what was deleted.
ClearEffect ==
    [][call'.op = "clear" =>
          /\ heap' = EmptyHeap
          /\ treeRoot' = NULL
          /\ treeSize' = 0
          /\ Len(destroyed') = 2 * Cardinality(TreeNodes)
          /\ Range(destroyed') = StoredKeys \cup StoredValues
          /\ Cardinality(Range(destroyed')) = Len(destroyed')
          /\ treeRoot = NULL =>
                 /\ heap' = heap
                 /\ treeSize' = treeSize
                 /\ destroyed' = <<>>]_vars

\* A clear of a tree of at least five nodes: ten items or more were deleted.
ClearWitness ==
    /\ call.op = "clear"
    /\ retBool
    /\ Len(destroyed) >= 10
    /\ treeRoot = NULL
    /\ treeSize = 0

\* The order values of the items of a list.
OrderValues(items) == [i \in 1..Len(items) |-> items[i][2]]

\* C17: in the round trip (keys 5,3,8,1,4,7,9 inserted into an empty map,
\* then 3 and then 8 deleted) every call succeeds, the red-black invariants
\* hold after each step, and the sorted traversal at the end yields exactly
\* 1,4,5,7,9 with size 5.
RoundTripResult ==
    /\ BlackHeightBalance
    /\ NoRedRed
    /\ BSTOrdered
    /\ RootBlack
    /\ treeSize = Cardinality(TreeNodes)
    /\ call.op \in {"addEntry", "deleteEntry"} => retBool
    /\ call.op = "getSortedList" =>
           /\ OrderValues(keyList.items) = <<1, 4, 5, 7, 9>>
           /\ valueList.items = <<Value(1, 1), Value(4, 1), Value(5, 1),
                                  Value(7, 1), Value(9, 1)>>
           /\ treeSize = 5
           /\ notes = {}

\* The sorted traversal at the end of the round trip with the insertions in
\* the order 5,3,8,1,4,7,9.
RoundTripWitness ==
    /\ script = RoundTripScript
    /\ call.op = "getSortedList"
    /\ OrderValues(keyList.items) = <<1, 4, 5, 7, 9>>
    /\ treeSize = 5
    /\ heap[treeRoot].nodeKey = OwnKey(5)

\* C18: over addEntry, deleteEntry, removeEntry, changeValue and clear, with
\* every item handed to the map a fresh object: no item the tree holds after
\* a call was deleted or handed back by it, no item is deleted twice or both
\* deleted and handed back, only items the tree held are deleted or handed
\* back, only the items of the call enter the tree, no item is in the tree
\* twice, and every item that left the tree was deleted, handed back, or is
\* the key object the caller called removeEntry with.
OwnershipSafe ==
    [][call'.op \in {"addEntry", "deleteEntry", "removeEntry", "changeValue",
                     "clear"} =>
          LET before == StoredKeys \cup StoredValues
              after == StoredKeys' \cup StoredValues'
              gone == Range(destroyed')
              back == {retItem'} \ {NullItem}
              kept == IF call'.op = "removeEntry" THEN {call'.key} ELSE {}
          IN  /\ after \cap (gone \cup back) = {}
              /\ Len(destroyed') = Cardinality(gone)
              /\ gone \cap back = {}
              /\ gone \cup back \subseteq before
              /\ after \ before \subseteq {call'.key, call'.value}
              /\ Cardinality(after) = 2 * Cardinality(TreeNodes')
              /\ (before \ after) \subseteq (gone \cup back \cup kept)]_vars

\* A removeEntry called with the stored key object itself on a node with two
\* children: the value came back, nothing was deleted, the caller keeps its
\* key.
OwnershipWitness ==
    /\ call.op = "removeEntry"
    /\ call.key = OwnKey(call.key[2])
    /\ retItem \in ValueObjects
    /\ destroyed = <<>>
    /\ Did("swapSuccessor")
    /\ call.key \notin StoredKeys
    /\ treeSize >= 3

\* How often a branch was taken.
CountIn(s, name) == Cardinality({i \in 1..Len(s) : s[i] = name})

RECURSIVE DepthOf(_, _, _)
\* The number of parent links from node n up to the root.
DepthOf(h, n, fuel) ==
    IF h[n].parent = NULL \/ fuel = 0 THEN 0
    ELSE 1 + DepthOf(h, h[n].parent, fuel - 1)

RECURSIVE HeightOf(_, _, _)
\* The number of nodes on the longest path down from n.
HeightOf(h, n, fuel) ==
    IF n = NULL \/ fuel = 0 THEN 0
    ELSE LET l == HeightOf(h, h[n].leftChild, fuel - 1)
             r == HeightOf(h, h[n].rightChild, fuel - 1)
         IN  1 + IF l > r THEN l ELSE r

\* C19: every public call comes to its end.  The descent loop of addEntry
\* makes no more passes than the tree is high; rebalanceInsert recurses two
\* levels up each time, so at most once for every two levels of the new
\* node, and stops after its rotation; rebalanceDelete recurses one level up
\* each time, so at most as often as the removed node is deep, and ends in
\* one of its terminating cases; deleteNode and removeNode recurse at most
\* once.
CallsTerminate ==
    [][/\ ~fault'
       /\ call'.op = "addEntry" /\ retBool' =>
              /\ CountIn(steps', "descend") <= HeightOf(heap, treeRoot, MaxKey)
              /\ 2 * CountIn(steps', "insert:recolor")
                     <= CountIn(steps', "descend")
              /\ CountIn(steps', "insert:rotate") <= 1
              /\ Did("insert:rotate")'
                     => steps'[Len(steps')] \in {"rotateLeft", "rotateRight"}
       /\ call'.op \in {"deleteEntry", "removeEntry"} /\ retBool' =>
              LET target == Holder(call'.key)
                  gone == IF /\ heap[target].leftChild # NULL
                             /\ heap[target].rightChild # NULL
                          THEN Leftmost(heap, heap[target].rightChild)
                          ELSE target
              IN  /\ CountIn(steps', "swapSuccessor") <= 1
                  /\ CountIn(steps', "delete:recolorSibling")
                         <= DepthOf(heap, gone, MaxKey)
                  /\ CountIn(steps', "delete:root")
                         + CountIn(steps', "delete:redChild")
                         + CountIn(steps', "delete:finalRotate")
                     = IF Did("unlink:black")' THEN 1 ELSE 0]_vars

\* A deleteEntry that found a red sibling, rotated it up, recolored the new
\* sibling and went one level up, where the red node in the gap ended it.
CallsTerminateWitness ==
    /\ call.op = "deleteEntry"
    /\ retBool
    /\ Did("delete:redSibling")
    /\ CountIn(steps, "delete:recolorSibling") = 1
    /\ Did("delete:redChild")
    /\ ~fault

\* C20: also with keys whose compare is zero where equals tells them apart,
\* after any sequence of addEntry calls no two nodes hold equal keys, and
\* addEntry returns false for every key that is equal to a stored key.
UniqueUnderDisagreement ==
    /\ [](\A n1, n2 \in TreeNodes :
              n1 # n2 => ~equals(heap[n1].nodeKey, heap[n2].nodeKey))
    /\ [][call'.op = "addEntry" /\ Holder(call'.key) # NULL => ~retBool']_vars

\* C21: whenever rebalanceDelete gets past its early returns, the sibling it
\* dereferences is not NULL, also when it is fetched again after the
\* red-sibling rotation, and at the final rotation the sibling's outer child
\* (the right one for a gap on the left, the left one for a gap on the right)
\* exists and is RED; no call dereferences NULL.
SiblingPresent ==
    /\ ~fault
    /\ ~Did("delete:noSibling")
    /\ ~Did("delete:outerNotRed")

\* A removal of a black node whose sibling was red and, once rotated up,
\* left a sibling with a red inner child: both rotations of case 2 followed.
SiblingPresentWitness ==
    /\ call.op \in {"deleteEntry", "removeEntry"}
    /\ Did("unlink:black")
    /\ Did("delete:redSibling")
    /\ Did("delete:innerRed")
    /\ Did("delete:finalRotate")
    /\ SiblingPresent

\* C22: through the public operations rotateLeft is never called on a node
\* without a right child and rotateRight never on a node without a left
\* child: the "Can't rotate" diagnostic is in the notes of no addEntry,
\* deleteEntry or removeEntry.
NoBadRotation ==
    /\ "rotateLeft: no right child" \notin notes
    /\ "rotateRight: no left child" \notin notes

\* An insertion below a red parent with a black or absent uncle that turned
\* an inner grandchild to the outside: a rotation each way at two nodes.
NoBadRotationWitness ==
    /\ call.op = "addEntry"
    /\ retBool
    /\ CountIn(steps, "rotateLeft") = 1
    /\ CountIn(steps, "rotateRight") = 1
    /\ treeSize >= 5
    /\ NoBadRotation

\* C23: after every public call, and at every call of getChildType within
\* one, the root's parent link is empty and every other node of the tree is
\* the left or the right child of the node its parent link names;
\* getChildType never finds a node that is not a child of its own parent.
ParentLinksConsistent ==
    /\ LinksConsistent(heap, treeRoot)
    /\ ~Did("getChildType:brokenLinks")
    /\ "getChildType: not a child of its own parent" \notin notes

\* A removal that swapped with the successor and rotated a red sibling up:
\* getChildType was called in deleteNode, in both rotations' callers and in
\* the rotations, which move a subtree from one parent to another.
ParentLinksWitness ==
    /\ call.op \in {"deleteEntry", "removeEntry"}
    /\ Did("swapSuccessor")
    /\ Did("delete:redSibling")
    /\ Did("rotateLeft")
    /\ treeSize >= 4
    /\ \E n \in TreeNodes : heap[n].parent # NULL /\ heap[heap[n].parent].parent # NULL
    /\ ParentLinksConsistent

\* The least order value of the keys of the subtree at n.
MinOrder(h, n) ==
    CHOOSE v \in {OrderOf(h[x].nodeKey) : x \in Subtree(h, n)} :
        \A x \in Subtree(h, n) : v <= OrderOf(h[x].nodeKey)

\* C24: when deleteEntry or removeEntry finds a node with two children, the
\* node getInorderSuccessor returns exists, is the leftmost node of the
\* target's right subtree (it holds the least key there) and has no left
\* child; the pairs are swapped once and the call on the successor unlinks it
\* as a leaf or a node with one child, without a second swap.  A target with
\* fewer than two children is unlinked without any swap.
SuccessorRemoval ==
    [][call'.op \in {"deleteEntry", "removeEntry"} /\ retBool' =>
          LET target == Holder(call'.key)
              right == heap[target].rightChild
              child == getInorderSuccessor(heap, target)
          IN  IF heap[target].leftChild # NULL /\ right # NULL
              THEN /\ child # NULL
                   /\ child \in Subtree(heap, right)
                   /\ heap[child].leftChild = NULL
                   /\ OrderOf(heap[child].nodeKey) = MinOrder(heap, right)
                   /\ CountIn(steps', "swapSuccessor") = 1
                   /\ steps'[1] = "swapSuccessor"
                   /\ CountIn(steps', "unlink:leaf")
                          + CountIn(steps', "unlink:oneChild") = 1
                   /\ Did("unlink:oneChild")' <=> heap[child].rightChild # NULL
                   /\ ~fault'
              ELSE /\ ~Did("swapSuccessor")'
                   /\ CountIn(steps', "unlink:leaf")
                          + CountIn(steps', "unlink:oneChild") = 1]_vars

\* A deleteEntry of a node with two children whose successor had a right
\* child: the pairs were swapped and the right child spliced into the
\* successor's place.
SuccessorRemovalWitness ==
    /\ call.op = "deleteEntry"
    /\ retBool
    /\ steps[1] = "swapSuccessor"
    /\ Did("unlink:oneChild")
    /\ treeSize >= 5

\* What deleteNode and removeNode make of the tree when called on target:
\* the same tree after the same branches, deleteNode deleting the target's
\* pair and removeNode nothing.
RemovalsAgree(target) ==
    LET d == BlackenRoot(deleteNode(Machine, target))
        r == BlackenRoot(removeNode(Machine, target))
    IN  /\ Canon(d.heap, d.root) = Canon(r.heap, r.root)
        /\ Cardinality(NodesOf(d.heap, d.root)) = treeSize - 1
        /\ d.steps = r.steps
        /\ d.notes = r.notes
        /\ d.fault = r.fault
        /\ Range(d.destroyed) = {heap[target].nodeKey, heap[target].nodeValue}
        /\ r.destroyed = <<>>

\* C25: deleteEntry and removeEntry make the same structural removal: in
\* every state the map is in between calls and for every present key,
\* deleteNode and removeNode leave trees of the same shape, colors, stored
\* pairs and size; they differ only in what is deleted (deleteNode: the
\* pair; removeNode: nothing) and, in the callers, in what is returned.
SameStructuralRemoval ==
    Idle => \A k \in Keys :
                Holder(TmpKey(k)) # NULL => RemovalsAgree(Holder(TmpKey(k)))

\* A map whose entry for some key is at a node with two children, and whose
\* removal, either way, swaps with the successor and ends with the final
\* rotation.
SameStructuralRemovalWitness ==
    /\ Idle
    /\ treeSize >= 5
    /\ \E k \in Keys :
           LET target == Holder(TmpKey(k))
           IN  /\ target # NULL
               /\ heap[target].leftChild # NULL
               /\ heap[target].rightChild # NULL
               /\ "delete:finalRotate"
                      \in Range(removeNode(Machine, target).steps)
               /\ RemovalsAgree(target)

\* The rotations a call made, in order.
Rotations == SelectSeq(steps, LAMBDA x : x \in {"rotateLeft", "rotateRight"})

KeysConsistent == \A a, b \in KeyObjects : equals(a, b) <=> compare(a, b) = 0

\* C27: with keys for which equals holds exactly when compare is zero, no
\* addEntry sends the "Key collision detected in map!" warning: a key equal
\* to a stored key is turned away by the containsKey test before the descent.
NoKeyCollision ==
    /\ "Key collision detected in map!" \notin notes
    /\ KeysConsistent

\* A successful addEntry whose descent made three passes and hung the new
\* node as a right child, the side on which the loop tests for equality.
NoKeyCollisionWitness ==
    /\ call.op = "addEntry"
    /\ retBool
    /\ CountIn(steps, "descend") = 3
    /\ Len(Rotations) = 0
    /\ LET node == Holder(call.key)
       IN  /\ node # NULL
           /\ heap[node].parent # NULL
           /\ heap[heap[node].parent].rightChild = node
    /\ NoKeyCollision

\* The node deleteNode or removeNode unlinks when called on target: the
\* in-order successor for a target with two children, else the target.
UnlinkedFor(h, target) ==
    IF h[target].leftChild # NULL /\ h[target].rightChild # NULL
    THEN Leftmost(h, h[target].rightChild)
    ELSE target

\* The heap with the pair of node gone moved to target and the leaf gone cut
\* off, every other link and every color as it is.
CutLeaf(h, target, gone) ==
    LET up == h[gone].parent
    IN  [n \in DOMAIN h |->
            IF n = gone THEN FreeNode
            ELSE LET r1 == IF n = target
                           THEN [h[n] EXCEPT !.nodeKey = h[gone].nodeKey,
                                             !.nodeValue = h[gone].nodeValue]
                           ELSE h[n]
                 IN  IF n = up
                     THEN [r1 EXCEPT !.leftChild = IF @ = gone THEN NULL ELSE @,
                                     !.rightChild = IF @ = gone THEN NULL ELSE @]
                     ELSE r1]

\* What removing the entry at target does when the unlinked node is RED.
RedUnlinkIsCut(target) ==
    LET gone == UnlinkedFor(heap, target)
        r == BlackenRoot(removeNode(Machine, target))
    IN  heap[gone].color = AT_MAP_RED =>
            /\ heap[gone].leftChild = NULL
            /\ heap[gone].rightChild = NULL
            /\ r.heap = CutLeaf(heap, target, gone)
            /\ r.root = treeRoot
            /\ ~r.fault

\* C28: a removed RED node needs no rebalancing.  Whenever the node that
\* deleteNode or removeNode unlinks is RED it has no children,
\* rebalanceDelete is not called, nothing is rotated, every other node keeps
\* its links and its color, and the red-black invariants hold in the tree
\* that is left.
RedRemovalNoRebalance ==
    /\ Idle => \A k \in Keys :
                   Holder(TmpKey(k)) # NULL => RedUnlinkIsCut(Holder(TmpKey(k)))
    /\ call.op \in {"deleteEntry", "removeEntry"} /\ Did("unlink:red") =>
           /\ Did("unlink:leaf")
           /\ \A i \in 1..Len(steps) :
                  steps[i] \in {"swapSuccessor", "unlink:leaf", "unlink:red"}
           /\ BlackHeightBalance
           /\ NoRedRed
           /\ BSTOrdered
           /\ RootBlack

\* A deleteEntry of a node with two children whose in-order successor was a
\* red leaf: the pairs were swapped and the leaf cut off.
RedRemovalWitness ==
    /\ call.op = "deleteEntry"
    /\ retBool
    /\ steps = <<"swapSuccessor", "unlink:leaf", "unlink:red">>
    /\ treeSize >= 4

\* The children of node n.
ChildrenOf(h, n) == {h[n].leftChild, h[n].rightChild} \ {NULL}

\* C29: in every reachable state a node with exactly one child is BLACK and
\* the child is a RED leaf; so a removal that unlinks a node with one child
\* unlinks a black node, and rebalanceDelete ends at once: for the root
\* without a step, else by making the spliced child BLACK, with no rotation.
OneChildIsRedLeaf ==
    /\ \A n \in TreeNodes :
           Cardinality(ChildrenOf(heap, n)) = 1 =>
               /\ heap[n].color = AT_MAP_BLACK
               /\ \A c \in ChildrenOf(heap, n) :
                      /\ heap[c].color = AT_MAP_RED
                      /\ ChildrenOf(heap, c) = {}
    /\ call.op \in {"deleteEntry", "removeEntry"} /\ Did("unlink:oneChild") =>
           /\ Did("unlink:black")
           /\ Len(Rotations) = 0
           /\ SubSeq(steps, Len(steps) - 2, Len(steps))
                  \in {<<"unlink:oneChild", "unlink:black", "delete:redChild">>,
                       <<"unlink:oneChild", "unlink:black", "delete:root">>}

\* A deleteEntry that unlinked a node with one child below the root and made
\* the spliced child black, leaving a tree in which another node has exactly
\* one child.
OneChildWitness ==
    /\ call.op = "deleteEntry"
    /\ retBool
    /\ Did("unlink:oneChild")
    /\ Did("delete:redChild")
    /\ \E n \in TreeNodes : Cardinality(ChildrenOf(heap, n)) = 1
    /\ OneChildIsRedLeaf

\* C30: getValue, containsKey, getNumEntries and getSortedList leave the map
\* as it is: the nodes with their links, colors, keys and values, the root
\* and the size are the same after the call as before, nothing is deleted,
\* whether or not the key is found.
QueriesLeaveMap ==
    [][call'.op \in {"getValue", "containsKey", "getNumEntries",
                     "getSortedList"} =>
          /\ heap' = heap
          /\ treeRoot' = treeRoot
          /\ treeSize' = treeSize
          /\ destroyed' = <<>>
          /\ entries' = entries
          /\ ~fault']_vars

\* A getValue that found its key two levels below the root of a tree of at
\* least five nodes.
QueriesLeaveMapWitness ==
    /\ call.op = "getValue"
    /\ retBool
    /\ retItem \in ValueObjects
    /\ treeSize >= 5
    /\ DepthOf(heap, Holder(call.key), MaxKey) >= 2

=============================================================================
